---- MODULE Spec2Model ----
(***************************************************************************)
(* farmer-core: the `initialize` instruction that creates the singleton    *)
(* ProgramConfig account at the address derived from the seed "config".    *)
(*                                                                         *)
(* One instruction is executed as the stages the program declares:         *)
(*   accounts  -> the `admin: Signer` account is validated                 *)
(*   seeds     -> `seeds = [SEED_CONFIG], bump` derives the config address *)
(*   init      -> `init, payer = admin, space = SIZE` allocates the account*)
(*   require   -> the handler's require! on the allowlist length           *)
(*   set_*     -> the handler's four field assignments                     *)
(*   exit      -> the account is serialized and the instruction commits    *)
(* The stages work on a loaded copy of the config account (`work`); the    *)
(* ledger changes only when the instruction returns Ok, and an Err return  *)
(* discards the copy.  Instructions that write the same account are        *)
(* executed one at a time.                                                 *)
(***************************************************************************)
EXTENDS Integers, Sequences, FiniteSets

VARIABLES
    ledger,        \* committed accounts: address -> account (absent = empty system account)
    status,        \* per caller: "idle" | "pending" | "executing"
    result,        \* per caller: outcome of the caller's last finished initialize
    req,           \* the instruction being executed (accounts and arguments)
    pc,            \* stage of the instruction being executed
    work,          \* the loaded config account the instruction works on
    bumps,         \* ctx.bumps.config: the derived address and bump
    onCurveCount   \* how many leading bump candidates hash onto the curve

vars == <<ledger, status, result, req, pc, work, bumps, onCurveCount>>

----------------------------------------------------------------------------
(* Bounds of the model *)

MaxShortLen == 2
MaxOver == 1
MaxSkip == 1

----------------------------------------------------------------------------
(* Constants of the program *)

\* (variant: a capacity of 51)
MAX_ALLOWED_MINTS_plus1 == 50 + 1
MAX_ALLOWED_MINTS == 50

SEED_CONFIG == "config"

\* (variants: the size without the 4-byte length prefix, without the discriminator)
SIZE_noLenPrefix == 8 + 32 + 32 + 1 + (32 * MAX_ALLOWED_MINTS)
SIZE_noDiscriminator == 32 + 32 + 1 + 4 + (32 * MAX_ALLOWED_MINTS)
SIZE == 8 + 32 + 32 + 1 + 4 + (32 * MAX_ALLOWED_MINTS)

----------------------------------------------------------------------------
(* Identities and inputs *)

Callers == {"A1", "A2"}
Wallets == {"W1", "W2"}
ZeroKey == "0"

Alt(n) == [i \in 1..n |-> IF i % 2 = 1 THEN "T2" ELSE "T1"]
Fill(n) == [i \in 1..n |-> "T1"]

MintLists ==
    {Alt(n) : n \in (0..MaxShortLen) \cup (MAX_ALLOWED_MINTS..(MAX_ALLOWED_MINTS + MaxOver))}
    \cup {Fill(n) : n \in 1..MaxShortLen}

----------------------------------------------------------------------------
(* ProgramConfig and its account *)

ZeroData ==
    [admin |-> ZeroKey, logistics_wallet |-> ZeroKey, paused |-> FALSE,
     allowed_mints |-> <<>>]

EmptyAccount ==
    [owner |-> "system", space |-> 0, discriminator |-> FALSE, data |-> ZeroData]

SerializedLen(data) == 8 + 32 + 32 + 1 + 4 + (32 * Len(data.allowed_mints))

AccountAt(k) == IF k \in DOMAIN ledger THEN ledger[k] ELSE EmptyAccount

----------------------------------------------------------------------------
(* Address derivation: seeds = [SEED_CONFIG], bump *)

\* (variant: seeds = [SEED_CONFIG, admin.key()])
ConfigSeeds_perAdmin(admin) == <<SEED_CONFIG, admin>>
ConfigSeeds(admin) == <<SEED_CONFIG>>

\* The hash of (seeds, bump) is taken as the pair itself; which candidates lie
\* on the curve is fixed per behaviour by onCurveCount: the candidates
\* 255, 254, ... above 255 - onCurveCount do.
OnCurve(seeds, bump) == bump > 255 - onCurveCount

RECURSIVE TryBump(_, _)
TryBump(seeds, bump) ==
    IF bump < 0 THEN [found |-> FALSE, address |-> <<seeds, 0>>, bump |-> 0]
    ELSE IF ~OnCurve(seeds, bump)
         THEN [found |-> TRUE, address |-> <<seeds, bump>>, bump |-> bump]
         ELSE TryBump(seeds, bump - 1)

FindProgramAddress(seeds) == TryBump(seeds, 255)

KeypairAddress == <<(<<"keypair">>), 0>>
NoBumps == [found |-> FALSE, address |-> KeypairAddress, bump |-> 0]

----------------------------------------------------------------------------
(* The requests *)

NoReq ==
    [admin |-> "none", isSigner |-> FALSE, config |-> KeypairAddress,
     logistics_wallet |-> ZeroKey, paused |-> FALSE, allowed_mints |-> <<>>]

Init ==
    /\ ledger = <<>>
    /\ status = [c \in Callers |-> "idle"]
    /\ result = [c \in Callers |-> "None"]
    /\ req = NoReq
    /\ pc = "idle"
    /\ work = EmptyAccount
    /\ bumps = NoBumps
    /\ onCurveCount \in 0..MaxSkip

(* An Err return: the instruction's effects are discarded. *)
Abort(err) ==
    /\ result' = [result EXCEPT ![req.admin] = err]
    /\ status' = [status EXCEPT ![req.admin] = "idle"]
    /\ req' = NoReq
    /\ pc' = "idle"
    /\ work' = EmptyAccount
    /\ bumps' = NoBumps
    /\ UNCHANGED <<ledger, onCurveCount>>

(* A caller sends an initialize instruction. *)
Submit(c) ==
    /\ status[c] = "idle"
    /\ status' = [status EXCEPT ![c] = "pending"]
    /\ result' = [result EXCEPT ![c] = "None"]
    /\ UNCHANGED <<ledger, req, pc, work, bumps, onCurveCount>>

(* farmer_core::initialize is entered with the caller's accounts and arguments. *)
Begin(c) ==
    /\ status[c] = "pending"
    /\ pc = "idle"
    /\ \E sg \in BOOLEAN, k \in {FindProgramAddress(ConfigSeeds(c)).address, KeypairAddress},
          w \in Wallets, p \in BOOLEAN, m \in MintLists :
          /\ req' = [admin |-> c, isSigner |-> sg, config |-> k,
                     logistics_wallet |-> w, paused |-> p, allowed_mints |-> m]
          /\ work' = AccountAt(k)
    /\ status' = [status EXCEPT ![c] = "executing"]
    /\ pc' = "accounts"
    /\ UNCHANGED <<ledger, result, bumps, onCurveCount>>

(* `pub admin: Signer<'info>`: the admin account must have signed. *)
\* (variant: an unchecked account in place of Signer)
SignerOk_unchecked(isSigner) == TRUE
SignerOk(isSigner) == isSigner

CheckSigner ==
    /\ pc = "accounts"
    /\ IF SignerOk(req.isSigner)
       THEN /\ pc' = "seeds"
            /\ UNCHANGED <<ledger, status, result, req, work, bumps, onCurveCount>>
       ELSE Abort("AccountNotSigner")

(* `init`: the account is created, owned by the program, zeroed, with the *)
(* given space; creation fails on an address that is already in use.      *)
\* (variant: init_if_needed, which accepts an account that already exists)
CreateAccount_ifNeeded(acct, space) ==
    IF acct.owner = "system" /\ acct.space = 0
    THEN [err |-> "Ok",
          account |-> [owner |-> "program", space |-> space,
                       discriminator |-> FALSE, data |-> ZeroData]]
    ELSE [err |-> "Ok", account |-> acct]
CreateAccount(acct, space) ==
    IF acct.owner = "system" /\ acct.space = 0
    THEN [err |-> "Ok",
          account |-> [owner |-> "program", space |-> space,
                       discriminator |-> FALSE, data |-> ZeroData]]
    ELSE [err |-> "AccountAlreadyInUse", account |-> acct]

(* `seeds = [SEED_CONFIG], bump`: the canonical address is derived and the *)
(* config account passed by the caller must be that address.              *)
DeriveConfigAddress ==
    /\ pc = "seeds"
    /\ LET pda == FindProgramAddress(ConfigSeeds(req.admin))
       IN IF ~pda.found
          THEN Abort("BumpSeedNotFound")
          ELSE IF req.config # pda.address
          THEN Abort("ConstraintSeeds")
          ELSE /\ bumps' = pda
               /\ pc' = "init"
               /\ UNCHANGED <<ledger, status, result, req, work, onCurveCount>>

(* `#[account(init, payer = admin, space = ProgramConfig::SIZE)] pub config` *)
InitConfigAccount ==
    /\ pc = "init"
    /\ LET created == CreateAccount(work, SIZE)
       IN IF created.err # "Ok"
          THEN Abort(created.err)
          ELSE /\ work' = created.account
               /\ pc' = "require"
               /\ UNCHANGED <<ledger, status, result, req, bumps, onCurveCount>>

(* require!(allowed_mints.len() <= MAX_ALLOWED_MINTS, TooManyAllowedMints) *)
\* (variants: no check, and a check that admits one entry too many)
AllowedMintsOk_unchecked(allowed_mints) == TRUE
AllowedMintsOk_offByOne(allowed_mints) == Len(allowed_mints) <= MAX_ALLOWED_MINTS + 1
AllowedMintsOk(allowed_mints) == Len(allowed_mints) <= MAX_ALLOWED_MINTS

RequireAllowedMints ==
    /\ pc = "require"
    /\ IF AllowedMintsOk(req.allowed_mints)
       THEN /\ pc' = "set_admin"
            /\ UNCHANGED <<ledger, status, result, req, work, bumps, onCurveCount>>
       ELSE Abort("TooManyAllowedMints")

(* config.admin = ctx.accounts.admin.key(); *)
WriteAdmin(data, r) == [data EXCEPT !.admin = r.admin]

SetAdmin ==
    /\ pc = "set_admin"
    /\ work' = [work EXCEPT !.data = WriteAdmin(@, req)]
    /\ pc' = "set_wallet"
    /\ UNCHANGED <<ledger, status, result, req, bumps, onCurveCount>>

(* config.logistics_wallet = logistics_wallet; *)
SetLogisticsWallet ==
    /\ pc = "set_wallet"
    /\ work' = [work EXCEPT !.data.logistics_wallet = req.logistics_wallet]
    /\ pc' = "set_paused"
    /\ UNCHANGED <<ledger, status, result, req, bumps, onCurveCount>>

(* config.paused = paused; *)
SetPaused ==
    /\ pc = "set_paused"
    /\ work' = [work EXCEPT !.data.paused = req.paused]
    /\ pc' = "set_mints"
    /\ UNCHANGED <<ledger, status, result, req, bumps, onCurveCount>>

(* config.allowed_mints = allowed_mints; *)
\* (variant: the list stored with its duplicates removed)
RECURSIVE Dedup(_)
Dedup(s) ==
    IF s = <<>> THEN <<>>
    ELSE LET front == Dedup(SubSeq(s, 1, Len(s) - 1))
             last == s[Len(s)]
         IN IF \E i \in 1..Len(front) : front[i] = last THEN front
            ELSE Append(front, last)
WriteAllowedMints_dedup(data, allowed_mints) ==
    [data EXCEPT !.allowed_mints = Dedup(allowed_mints)]
WriteAllowedMints(data, allowed_mints) ==
    [data EXCEPT !.allowed_mints = allowed_mints]

SetAllowedMints ==
    /\ pc = "set_mints"
    /\ work' = [work EXCEPT !.data = WriteAllowedMints(@, req.allowed_mints)]
    /\ pc' = "exit"
    /\ UNCHANGED <<ledger, status, result, req, bumps, onCurveCount>>

(* Ok(()): the account is serialized into its data and the instruction commits. *)
Store(l, k, acct) == [a \in DOMAIN l \cup {k} |-> IF a = k THEN acct ELSE l[a]]

Exit ==
    /\ pc = "exit"
    /\ IF SerializedLen(work.data) > work.space
       THEN Abort("AccountDidNotSerialize")
       ELSE /\ ledger' = Store(ledger, req.config, [work EXCEPT !.discriminator = TRUE])
            /\ result' = [result EXCEPT ![req.admin] = "Ok"]
            /\ status' = [status EXCEPT ![req.admin] = "idle"]
            /\ req' = NoReq
            /\ pc' = "idle"
            /\ work' = EmptyAccount
            /\ bumps' = NoBumps
            /\ UNCHANGED onCurveCount

Next ==
    \/ \E c \in Callers : Submit(c)
    \/ \E c \in Callers : Begin(c)
    \/ CheckSigner
    \/ DeriveConfigAddress
    \/ InitConfigAccount
    \/ RequireAllowedMints
    \/ SetAdmin
    \/ SetLogisticsWallet
    \/ SetPaused
    \/ SetAllowedMints
    \/ Exit

Spec == Init /\ [][Next]_vars

----------------------------------------------------------------------------
(* Vocabulary of the properties *)

\* The config address in closed form: seed "config", the first bump below
\* the candidates that hash onto the curve.
ConfigAddress == <<(<<"config">>), 255 - onCurveCount>>

Initialized == ConfigAddress \in DOMAIN ledger

\* The instruction being executed returns in this step.
Finishing == pc # "idle" /\ pc' = "idle"

\* The request is signed by its admin and passes the derived config address.
WellFormed(r) == r.isSigner /\ r.config = ConfigAddress

WithinCapacity(r) == Len(r.allowed_mints) <= 50
OverCapacity(r) == Len(r.allowed_mints) > 50

RecordOf(r) ==
    [admin |-> r.admin, logistics_wallet |-> r.logistics_wallet,
     paused |-> r.paused, allowed_mints |-> r.allowed_mints]

----------------------------------------------------------------------------
\* C1: a signed initialize with an allowlist of at most 50 entries, executed
\* while no config record exists, returns Ok and leaves at the config
\* address exactly the record {admin: signer, logistics_wallet, paused,
\* allowed_mints} of the request, the list verbatim (order and duplicates).
C1_InitStoresInputs ==
    [][(Finishing /\ WellFormed(req) /\ WithinCapacity(req) /\ ~Initialized)
         => /\ result'[req.admin] = "Ok"
            /\ ConfigAddress \in DOMAIN ledger'
            /\ ledger'[ConfigAddress].data = RecordOf(req)
            /\ ledger'[ConfigAddress].owner = "program"
            /\ ledger'[ConfigAddress].discriminator]_vars

C1_Witness ==
    /\ Initialized
    /\ ledger[ConfigAddress].data.allowed_mints = <<"T1", "T1">>
    /\ ledger[ConfigAddress].data.paused
    /\ result[ledger[ConfigAddress].data.admin] = "Ok"

\* C2: an initialize whose allowlist has more than 50 entries never returns
\* Ok and leaves the ledger exactly as it was; executed (signed, on the
\* config address) while no record exists it fails with TooManyAllowedMints
\* and no record exists afterwards, whatever logistics_wallet and paused are.
C2_OverCapacityRejected ==
    [][(Finishing /\ OverCapacity(req))
         => /\ ledger' = ledger
            /\ result'[req.admin] # "Ok"
            /\ (WellFormed(req) /\ ~Initialized)
                 => /\ result'[req.admin] = "TooManyAllowedMints"
                    /\ ~Initialized']_vars

C2_Witness ==
    /\ ledger = <<>>
    /\ \E c \in Callers : result[c] = "TooManyAllowedMints"

\* C3: once the record exists the ledger never changes again; every later
\* initialize fails, a signed one on the config address with
\* AccountAlreadyInUse whatever its arguments; an initialize returns Ok only
\* when no record existed, so at most one ever succeeds.
C3_InitOnlyOnce ==
    [][/\ Initialized => ledger' = ledger
       /\ (Finishing /\ Initialized)
            => /\ result'[req.admin] # "Ok"
               /\ WellFormed(req) => result'[req.admin] = "AccountAlreadyInUse"
       /\ (Finishing /\ result'[req.admin] = "Ok") => ~Initialized]_vars

C3_Witness ==
    /\ Initialized
    /\ ledger[ConfigAddress].data.admin = "A1"
    /\ result["A1"] = "AccountAlreadyInUse"
    /\ result["A2"] = "AccountAlreadyInUse"

\* C4: with two callers' valid requests in flight, the one executed first
\* returns Ok and the other AccountAlreadyInUse; the ledger changes only
\* when an instruction commits, and then to a complete record whose four
\* fields all come from that one request; no committed record is partial.
Complete(acct) ==
    /\ acct.owner = "program"
    /\ acct.discriminator
    /\ acct.data.admin \in Callers
    /\ acct.data.logistics_wallet \in Wallets

C4_RaceOneWinner ==
    [][/\ \A k \in DOMAIN ledger' : Complete(ledger'[k])
       /\ ledger' # ledger
            => /\ pc = "exit"
               /\ ~Initialized
               /\ ledger' = Store(ledger, ConfigAddress,
                                  [owner |-> "program", space |-> SIZE,
                                   discriminator |-> TRUE, data |-> RecordOf(req)])
       /\ (Finishing /\ WellFormed(req) /\ WithinCapacity(req))
            => IF Initialized
               THEN result'[req.admin] = "AccountAlreadyInUse" /\ ledger' = ledger
               ELSE result'[req.admin] = "Ok" /\ ledger' # ledger]_vars

C4_Witness ==
    /\ pc = "set_paused"
    /\ req.admin = "A1"
    /\ status["A2"] = "pending"
    /\ work.data.admin = "A1"
    /\ work.data.allowed_mints = <<>>
    /\ req.allowed_mints # <<>>
    /\ ~Initialized

\* C5: every committed config record holds at most 50 allowed mints.
C5_AllowlistBounded ==
    \A k \in DOMAIN ledger : Len(ledger[k].data.allowed_mints) <= 50

C5_Witness ==
    /\ Initialized
    /\ Len(ledger[ConfigAddress].data.allowed_mints) = 50
    /\ \E c \in Callers : result[c] = "TooManyAllowedMints"

\* C6 as stated: every config account is allocated the same space whatever
\* the length of the allowlist, that space is 1709 bytes, and it never
\* changes afterwards.
C6_SpaceIs1709 ==
    [][/\ \A k \in DOMAIN ledger' : ledger'[k].space = 1709
       /\ \A k \in DOMAIN ledger :
            k \in DOMAIN ledger' /\ ledger'[k].space = ledger[k].space]_vars

\* C6 amended: every config account is allocated the same space whatever
\* the length of the allowlist, 8 + 32 + 32 + 1 + 4 + 50 * 32 = 1677 bytes,
\* and its space never changes afterwards.
C6_ConstantSpace ==
    [][/\ \A k \in DOMAIN ledger' : ledger'[k].space = 1677
       /\ \A k \in DOMAIN ledger :
            k \in DOMAIN ledger' /\ ledger'[k].space = ledger[k].space
       /\ work'.space \in {0, 1677}]_vars

C6_Witness ==
    /\ Initialized
    /\ ledger[ConfigAddress].data.allowed_mints = <<"T2">>
    /\ ledger[ConfigAddress].space = 1677
    /\ ledger[ConfigAddress].space = 8 + 32 + 32 + 1 + 4 + 50 * 32

\* C7: the account is allocated and written only for a request its admin
\* signed; the admin stored by a successful initialize is that signer,
\* whatever the arguments, and it never changes afterwards.
C7_AdminIsSigner ==
    [][/\ work'.owner = "program" /\ pc' # "idle" /\ pc' # "accounts" => req'.isSigner
       /\ (Finishing /\ result'[req.admin] = "Ok")
            => /\ req.isSigner
               /\ req.config \in DOMAIN ledger'
               /\ ledger'[req.config].data.admin = req.admin
       /\ \A k \in DOMAIN ledger :
            k \in DOMAIN ledger' /\ ledger'[k].data.admin = ledger[k].data.admin]_vars

C7_Witness ==
    /\ Initialized
    /\ ledger[ConfigAddress].data.admin = "A2"
    /\ result["A2"] = "Ok"
    /\ result["A1"] = "AccountNotSigner"

\* C8: whoever calls and whatever the ledger holds, the derivation yields
\* the same address and the same bump (the first candidate from 255
\* downwards that is off the curve), and records exist at that address only.
C8_SameAddress ==
    /\ bumps.found => bumps.address = ConfigAddress /\ bumps.bump = 255 - onCurveCount
    /\ DOMAIN ledger \subseteq {ConfigAddress}

C8_Witness ==
    /\ bumps.found
    /\ bumps.bump = 254
    /\ req.admin = "A2"
    /\ Initialized
    /\ ledger[ConfigAddress].data.admin = "A1"

\* C9 as stated: the allocation of the config account never occurs for a
\* request whose allowlist has more than 50 entries.
C9_NoAllocationForOverCapacity ==
    ~(OverCapacity(req) /\ pc = "require" /\ work.owner = "program" /\ work.space = SIZE)

\* C9 amended: a request with more than 50 entries has its account allocated
\* in the instruction's working copy, is then rejected by the capacity check
\* with TooManyAllowedMints before any field is written, and the allocation
\* is discarded; the list a committed record holds is the whole list of the
\* committing request, never a shortened one.
C9_RejectedNotTruncated ==
    [][/\ OverCapacity(req) => pc \in {"accounts", "seeds", "init", "require"}
       /\ (OverCapacity(req) /\ pc = "require" /\ pc' # pc)
            => /\ result'[req.admin] = "TooManyAllowedMints"
               /\ work' = EmptyAccount
               /\ ledger' = ledger
       /\ ledger' # ledger
            => /\ WithinCapacity(req)
               /\ req.config \in DOMAIN ledger'
               /\ ledger'[req.config].data.allowed_mints = req.allowed_mints]_vars

C9_Witness ==
    /\ OverCapacity(req)
    /\ pc = "require"
    /\ work.space = SIZE
    /\ work.data = ZeroData
    /\ ledger = <<>>

\* C10: a record that passed the capacity check fits its account: the
\* serialized length 8 + 32 + 32 + 1 + 4 + 32 * len is at most the space
\* allocated, with equality exactly at 50 entries, so serialization at exit
\* never fails.
Fits(acct) ==
    /\ SerializedLen(acct.data) <= acct.space
    /\ SerializedLen(acct.data) = acct.space <=> Len(acct.data.allowed_mints) = 50

C10_RecordFits ==
    /\ \A k \in DOMAIN ledger : Fits(ledger[k])
    /\ pc \in {"set_admin", "set_wallet", "set_paused", "set_mints", "exit"} => Fits(work)
    /\ \A c \in Callers : result[c] # "AccountDidNotSerialize"

C10_Witness ==
    /\ pc = "exit"
    /\ Len(work.data.allowed_mints) = 50
    /\ SerializedLen(work.data) = work.space
    /\ work.space = SIZE

====
